---- MODULE Spec2Model ----
(***************************************************************************)
(* WCDB repair utility: FileHandle (src/repair/utility/FileHandle.cpp).    *)
(* A FileHandle owns one OS descriptor for one path and offers open,       *)
(* close, size, positioned read and positioned write.  The model holds the *)
(* handles, the part of the OS they talk to (files, descriptor table), the *)
(* per-thread error slot, and one call record per thread.                  *)
(***************************************************************************)
EXTENDS Integers, Sequences, FiniteSets, TLC

\* ------------------------------------------------------------------ bounds
MaxFd == 4
MaxSize == 2
MaxIntr == 2

\* ------------------------------------------------------------- universes
Threads == {"t1", "t2"}
Handles == {"h1", "h2"}
Paths == {"a", "b"}
NoPath == ""
NoHandle == "-"
NoFd == [path |-> NoPath, acc |-> "-", cursor |-> 0]
NoError == [code |-> "OK", kind |-> "-", message |-> "-", path |-> NoPath]

Min(S) == CHOOSE x \in S : \A y \in S : x <= y
Max(S) == CHOOSE x \in S : \A y \in S : x >= y

\* ------------------------------------------------------------------ state
VARIABLES files, fdtab, handle, threadedError, call
vars == <<files, fdtab, handle, threadedError, call>>

\* A FileHandle object: path, m_fd, m_mode; alive between construction and
\* destruction.
NoObject == [alive |-> FALSE, path |-> NoPath, m_fd |-> -1, m_mode |-> "None"]
FileHandle(path_) == [alive |-> TRUE, path |-> path_, m_fd |-> -1, m_mode |-> "None"]

isOpened(o) == o.m_fd # -1

\* The record of a thread's current call.  The fields from size0 on are
\* history: what the call was asked, and what the OS did for it.
Idle ==
    [pc |-> "idle", op |-> "-", h |-> NoHandle, mode |-> "None",
     buffer |-> <<>>, bpos |-> 0, offset |-> 0, size |-> 0, got |-> 0, prior |-> 0,
     errno |-> "OK", ret |-> 0, ok |-> FALSE,
     size0 |-> 0, off0 |-> 0, attempts |-> 0, intr |-> 0, more |-> FALSE, xfer |-> 0,
     fails |-> <<>>, pubs |-> <<>>, stores |-> 0, oscalls |-> <<>>,
     asserted |-> FALSE, pre |-> NoObject, preOther |-> NoObject, other |-> NoHandle]

\* The sequential world an operation runs in: the OS, the handles, the
\* error slots, and the history of the running operation.
World(c) ==
    [files |-> files, fdtab |-> fdtab, handle |-> handle, err |-> threadedError,
     fails |-> c.fails, pubs |-> c.pubs, stores |-> c.stores, oscalls |-> c.oscalls,
     asserted |-> c.asserted]

\* ---------------------------------------------------------------- the OS
LiveFds(tab) == {n \in 1..MaxFd : tab[n] # NoFd}
FreeFds(tab) == {n \in 1..MaxFd : tab[n] = NoFd}

OsCall(fn, path, flags, fd, ret, errno) ==
    [fn |-> fn, path |-> path, flags |-> flags, fd |-> fd, ret |-> ret, errno |-> errno]

Failed(w, call_) ==
    [w EXCEPT !.oscalls = Append(@, call_), !.fails = Append(@, call_.errno)]

\* ::open(path, flags): the lowest free descriptor, or -1 with errno.
\* O_RDONLY is 0, the empty set of flags.
SysOpen(w, path, flags) ==
    LET wr == "O_WRONLY" \in flags
        bad(errno) == [w |-> Failed(w, OsCall("open", path, flags, -1, -1, errno)),
                       ret |-> -1, errno |-> errno]
    IN  IF FreeFds(w.fdtab) = {} THEN bad("EMFILE")
        ELSE IF path \notin Paths THEN bad("ENOENT")
        ELSE IF ~w.files[path].exists /\ "O_CREAT" \notin flags THEN bad("ENOENT")
        ELSE IF w.files[path].exists /\ wr /\ ~w.files[path].writable THEN bad("EACCES")
        ELSE
            LET fd == Min(FreeFds(w.fdtab))
                f == w.files[path]
                nf == IF ~f.exists THEN [exists |-> TRUE, writable |-> TRUE, data |-> <<>>]
                      ELSE IF wr /\ "O_TRUNC" \in flags THEN [f EXCEPT !.data = <<>>]
                      ELSE f
                d == [path |-> path, acc |-> IF wr THEN "w" ELSE "r", cursor |-> 0]
            IN  [w |-> [w EXCEPT !.files[path] = nf, !.fdtab[fd] = d,
                                 !.oscalls = Append(@, OsCall("open", path, flags, -1, fd, "OK"))],
                 ret |-> fd, errno |-> "OK"]

\* ::close(fd)
SysClose(w, fd) ==
    IF fd \in LiveFds(w.fdtab)
    THEN [w EXCEPT !.fdtab[fd] = NoFd,
                   !.oscalls = Append(@, OsCall("close", NoPath, {}, fd, 0, "OK"))]
    ELSE Failed(w, OsCall("close", NoPath, {}, fd, -1, "EBADF"))

\* What the environment does to an lseek on a live descriptor: nothing, or
\* the resulting offset does not fit off_t.
LseekErrnos == {"OK", "EOVERFLOW"}

\* lseek(fd, 0, SEEK_END): moves the descriptor's cursor to the end of the
\* file and returns it, or fails with -1 and errno (env on a live descriptor).
SysLseekEnd(w, fd, env) ==
    IF fd \in LiveFds(w.fdtab) /\ env # "OK"
    THEN [w |-> Failed(w, OsCall("lseek", NoPath, {}, fd, -1, env)),
          ret |-> -1, errno |-> env]
    ELSE IF fd \in LiveFds(w.fdtab)
    THEN LET len == Len(w.files[w.fdtab[fd].path].data)
         IN  [w |-> [w EXCEPT !.fdtab[fd].cursor = len,
                              !.oscalls = Append(@, OsCall("lseek", NoPath, {}, fd, len, "OK"))],
              ret |-> len, errno |-> "OK"]
    ELSE [w |-> Failed(w, OsCall("lseek", NoPath, {}, fd, -1, "EBADF")),
          ret |-> -1, errno |-> "EBADF"]

\* ------------------------------------------------------------ FileHandle
\* WCTInnerAssert / WCTRemedialAssert with a false condition: the failure is
\* recorded and execution continues (with the remedial statement, if any).
Trip(w) == [w EXCEPT !.asserted = TRUE]

Strerror(errno) == "strerror:" \o errno

Error(errno, path) ==
    [code |-> errno, kind |-> "IOError", message |-> Strerror(errno), path |-> path]

\* A faulty error capture: the Error goes into one slot all threads share.
setThreadedErrorShared(w, t, h, errno) ==
    LET error == Error(errno, w.handle[h].path)
    IN  [w EXCEPT !.pubs = Append(@, error),
                  !.err = [u \in Threads |-> error],
                  !.stores = @ + 1]

\* FileHandle::setThreadedError, run by thread t for handle h after an OS
\* call left errno.
setThreadedError(w, t, h, errno) ==
    LET error == Error(errno, w.handle[h].path)
    IN  [w EXCEPT !.pubs = Append(@, error),
                  !.err[t] = error,
                  !.stores = @ + 1]

\* The flags FileHandle::open passes for each mode.
OverWriteFlags == {"O_CREAT", "O_WRONLY", "O_TRUNC"}
ReadOnlyFlags == {}
DefaultFlag == {}

\* FileHandle::open(mode)
open(w, t, h, mode) ==
    LET w1 == IF mode = "None" THEN Trip(w) ELSE w
        path == w.handle[h].path
    IN  IF isOpened(w1.handle[h]) THEN [w |-> Trip(w1), ok |-> TRUE]
        ELSE IF mode \notin {"OverWrite", "ReadOnly"} THEN [w |-> w1, ok |-> FALSE]
        ELSE
            LET r1 == SysOpen(w1, path, IF mode = "OverWrite" THEN OverWriteFlags
                                        ELSE ReadOnlyFlags)
                w2 == [r1.w EXCEPT !.handle[h].m_fd = r1.ret]
                r2 == SysOpen(w2, path, DefaultFlag)
                w3 == [r2.w EXCEPT !.handle[h].m_fd = r2.ret]
            IN  IF r2.ret = -1
                THEN [w |-> setThreadedError(w3, t, h, r2.errno), ok |-> FALSE]
                ELSE [w |-> w3, ok |-> TRUE]

\* A faulty close(): the descriptor is released, m_fd is not reset to -1.
closeKeepFd(w, h) ==
    LET w1 == IF isOpened(w.handle[h]) THEN w ELSE Trip(w)
    IN  IF w1.handle[h].m_fd # -1 THEN SysClose(w1, w1.handle[h].m_fd) ELSE w1

\* FileHandle::close()
close(w, h) ==
    LET w1 == IF isOpened(w.handle[h]) THEN w ELSE Trip(w)
    IN  IF w1.handle[h].m_fd # -1
        THEN [SysClose(w1, w1.handle[h].m_fd) EXCEPT !.handle[h].m_fd = -1]
        ELSE w1

\* FileHandle::size()
size(w, h, env) ==
    LET w1 == IF w.handle[h].m_fd # -1 THEN w ELSE Trip(w)
    IN  SysLseekEnd(w1, w1.handle[h].m_fd, env)

\* A faulty move constructor: other.m_fd = -1 is forgotten.
moveConstructKeepOther(w, h, other, left) ==
    LET o == w.handle[other]
    IN  [w EXCEPT !.handle[h] = [alive |-> TRUE, path |-> o.path, m_fd |-> o.m_fd,
                                 m_mode |-> o.m_mode],
                  !.handle[other] = [o EXCEPT !.path = left, !.m_mode = "None"]]

\* FileHandle::FileHandle(FileHandle &&other): h is built from other.  A
\* moved-from std::string is valid but unspecified: left is what it holds.
moveConstruct(w, h, other, left) ==
    LET o == w.handle[other]
    IN  [w EXCEPT !.handle[h] = [alive |-> TRUE, path |-> o.path, m_fd |-> o.m_fd,
                                 m_mode |-> o.m_mode],
                  !.handle[other] = [o EXCEPT !.path = left, !.m_fd = -1, !.m_mode = "None"]]

\* FileHandle::~FileHandle()
destroy(w, h) ==
    LET o == w.handle[h]
        w1 == IF ~isOpened(o) \/ o.m_mode # "OverWrite" THEN w ELSE close(Trip(w), h)
    IN  [w1 EXCEPT !.handle[h] = NoObject]

\* A faulty move assignment: other.m_fd = -1 is forgotten.
moveAssignKeepOther(w, h, other) ==
    LET w1 == IF w.handle[h].path = w.handle[other].path THEN w ELSE Trip(w)
    IN  [w1 EXCEPT !.handle[h].m_fd = w1.handle[other].m_fd]

\* FileHandle::operator=(FileHandle &&other)
moveAssign(w, h, other) ==
    LET w1 == IF w.handle[h].path = w.handle[other].path THEN w ELSE Trip(w)
        w2 == [w1 EXCEPT !.handle[h].m_fd = w1.handle[other].m_fd]
    IN  [w2 EXCEPT !.handle[other].m_fd = -1]

\* ---------------------------------------------------- positioned I/O, OS
\* Offsets callers pass: the start of the file and one byte into it.
Offsets == {0, 1}
InitialData == [i \in 1..MaxSize |-> 10 + i]
WriteBuffers == {[i \in 1..n |-> 20 + i] : n \in 0..MaxSize}
Zeroed(n) == [i \in 1..n |-> 0]

\* What one pread(fd, buffer, size, offset) can do: fail (ret -1 with errno)
\* or transfer ret bytes, any number from 1 up to what the file has left; 0
\* at or past the end of the file.
PreadOutcomes(w, fd, size_, offset) ==
    IF fd \notin LiveFds(w.fdtab) \/ w.fdtab[fd].acc # "r"
    THEN {[ret |-> -1, errno |-> "EBADF", data |-> <<>>]}
    ELSE LET data == w.files[w.fdtab[fd].path].data
             avail == Min({size_, Max({0, Len(data) - offset})})
         IN  {[ret |-> -1, errno |-> e, data |-> <<>>] : e \in {"EINTR", "EIO"}}
             \cup {[ret |-> n, errno |-> "OK", data |-> SubSeq(data, offset + 1, offset + n)]
                   : n \in (IF avail = 0 THEN {0} ELSE 1..avail)}

\* What one pwrite(fd, buffer, size, offset) can do.
PwriteOutcomes(w, fd, size_, offset) ==
    IF fd \notin LiveFds(w.fdtab) \/ w.fdtab[fd].acc # "w"
    THEN {[ret |-> -1, errno |-> "EBADF"]}
    ELSE {[ret |-> -1, errno |-> e] : e \in {"EINTR", "ENOSPC"}}
         \cup {[ret |-> n, errno |-> "OK"] : n \in (IF size_ = 0 THEN {0} ELSE 1..size_)}

\* bytes stored into a sequence at position pos (0-based), zero-filling a gap
StoreAt(seq, pos, bytes) ==
    [i \in 1..Max({Len(seq), pos + Len(bytes)}) |->
        IF i > pos /\ i <= pos + Len(bytes) THEN bytes[i - pos]
        ELSE IF i <= Len(seq) THEN seq[i] ELSE 0]

\* The file after pwrite stored the first n bytes of the caller's buffer.
Pwritten(w, fd, bytes, offset) ==
    LET p == w.fdtab[fd].path
    IN  [w EXCEPT !.files[p].data = StoreAt(@, offset, bytes)]

\* ------------------------------------------------ FileHandle::read/write
\* One attempt (a pread or pwrite) leaves errno, and goes into the history of
\* the call.  Interrupted attempts are counted up to MaxIntr; of the ones
\* beyond that only the parity is kept (more).
Attempted(c, out) ==
    IF out.errno = "EINTR"
    THEN IF c.intr < MaxIntr
         THEN [c EXCEPT !.errno = out.errno, !.attempts = @ + 1, !.intr = @ + 1]
         ELSE [c EXCEPT !.errno = out.errno, !.more = ~@]
    ELSE [c EXCEPT !.errno = out.errno,
                   !.attempts = @ + 1,
                   !.xfer = @ + (IF out.ret > 0 THEN out.ret ELSE 0),
                   !.fails = IF out.ret < 0 THEN Append(@, out.errno) ELSE @]

Returned(c, value) == [c EXCEPT !.pc = "done", !.ret = value]

\* A faulty interruption branch: got = 1 without the continue, so that the
\* fabricated byte is accounted as transferred.
readInterruptedCounted(c) ==
    LET c1 == [c EXCEPT !.got = 1]
    IN  [c1 EXCEPT !.size = @ - c1.got, !.offset = @ + c1.got, !.prior = @ + c1.got,
                   !.bpos = @ + c1.got]

\* errno == EINTR: got = 1; continue;  (the loop condition got > 0 holds)
readInterrupted(c) == [c EXCEPT !.got = 1]

\* A faulty error branch: every error is retried like an interruption.
readFailedRetry(c) == [c EXCEPT !.prior = 0, !.got = 1]

\* any other errno: prior = 0; setThreadedError(); break;  return got + prior
readFailed(c) ==
    LET c1 == [c EXCEPT !.prior = 0]
    IN  Returned(c1, c1.got + c1.prior)

\* A faulty advance: offset += got is forgotten.
readAdvanceKeepOffset(c) ==
    [c EXCEPT !.size = @ - c.got, !.prior = @ + c.got, !.bpos = @ + c.got]

\* A faulty advance: prior += got is forgotten.
readAdvanceDropTotal(c) ==
    [c EXCEPT !.size = @ - c.got, !.offset = @ + c.got, !.bpos = @ + c.got]

\* A faulty advance: size -= got is forgotten.
readAdvanceKeepSize(c) ==
    [c EXCEPT !.offset = @ + c.got, !.prior = @ + c.got, !.bpos = @ + c.got]

\* 0 < got < size
readAdvance(c) ==
    [c EXCEPT !.size = @ - c.got, !.offset = @ + c.got, !.prior = @ + c.got,
              !.bpos = @ + c.got]

\* One iteration of the do-while of FileHandle::read, run by thread t with
\* the outcome out of its pread.
readIteration(w, c0, t, out) ==
    LET c == [Attempted(c0, out) EXCEPT !.got = out.ret,
                                        !.buffer = StoreAt(@, c0.bpos, out.data)]
    IN  IF c.got = c.size THEN [w |-> w, c |-> Returned(c, c.got + c.prior)]
        ELSE IF c.got < 0
        THEN IF out.errno = "EINTR" THEN [w |-> w, c |-> readInterrupted(c)]
             ELSE [w |-> setThreadedError(w, t, c.h, out.errno), c |-> readFailed(c)]
        ELSE IF c.got > 0 THEN [w |-> w, c |-> readAdvance(c)]
        ELSE [w |-> w, c |-> Returned(c, c.got + c.prior)]

writeInterrupted(c) == [c EXCEPT !.got = 1]

\* any other errno: setThreadedError(); break;  return wrote + prior
writeFailed(c) == Returned(c, c.got + c.prior)

writeAdvance(c) ==
    [c EXCEPT !.size = @ - c.got, !.offset = @ + c.got, !.prior = @ + c.got,
              !.bpos = @ + c.got]

\* One iteration of the do-while of FileHandle::write (got is its wrote).
writeIteration(w0, c0, t, out) ==
    LET fd == w0.handle[c0.h].m_fd
        w == IF out.ret > 0
             THEN Pwritten(w0, fd, SubSeq(c0.buffer, c0.bpos + 1, c0.bpos + out.ret), c0.offset)
             ELSE w0
        c == [Attempted(c0, out) EXCEPT !.got = out.ret]
    IN  IF c.got = c.size THEN [w |-> w, c |-> Returned(c, c.got + c.prior)]
        ELSE IF c.got < 0
        THEN IF out.errno = "EINTR" THEN [w |-> w, c |-> writeInterrupted(c)]
             ELSE [w |-> setThreadedError(w, t, c.h, out.errno), c |-> writeFailed(c)]
        ELSE IF c.got > 0 THEN [w |-> w, c |-> writeAdvance(c)]
        ELSE [w |-> w, c |-> Returned(c, c.got + c.prior)]

\* ---------------------------------------------------------------- actions
\* File "a" exists, holds InitialData and is read-only for the process.
\* File "b" does not exist.  No handle is constructed.
Init ==
    /\ files = [p \in Paths |->
                   IF p = "a" THEN [exists |-> TRUE, writable |-> FALSE, data |-> InitialData]
                   ELSE [exists |-> FALSE, writable |-> FALSE, data |-> <<>>]]
    /\ fdtab = [n \in 1..MaxFd |-> NoFd]
    /\ handle = [h \in Handles |-> NoObject]
    /\ threadedError = [t \in Threads |-> NoError]
    /\ call = [t \in Threads |-> Idle]

\* open, close and the moves of one handle are synchronized by the caller:
\* none of them runs while a read or write of that handle is in flight.
Quiet(h) == \A t \in Threads : call[t].pc \in {"read", "write"} => call[t].h # h

\* The thread that constructs, opens, closes, moves and destroys handles.
Owner == "t1"

\* The state after a whole member function ran in world w.
Commit(w) ==
    /\ files' = w.files
    /\ fdtab' = w.fdtab
    /\ handle' = w.handle
    /\ threadedError' = w.err

\* The record of a member function that ran from start to end in one step.
Ran(t, op_, h, w) ==
    [Idle EXCEPT !.pc = "done", !.op = op_, !.h = h, !.pre = handle[h],
                 !.fails = w.fails, !.pubs = w.pubs, !.stores = w.stores,
                 !.oscalls = w.oscalls, !.asserted = w.asserted]

\* FileHandle h(path)
Construct(h, p) ==
    /\ \A t \in Threads : call[t].pc = "idle"
    /\ ~handle[h].alive
    /\ handle' = [handle EXCEPT ![h] = FileHandle(p)]
    /\ UNCHANGED <<files, fdtab, threadedError, call>>

\* The process does not run out of descriptors: open() is called while the
\* two descriptors it may take are free.
Open(t, h, mode) ==
    /\ call[t].pc = "idle" /\ handle[h].alive /\ Quiet(h)
    /\ Cardinality(FreeFds(fdtab)) >= 2
    /\ LET r == open(World(Idle), t, h, mode)
       IN  /\ Commit(r.w)
           /\ call' = [call EXCEPT ![t] =
                         [Ran(t, "open", h, r.w) EXCEPT !.mode = mode, !.ok = r.ok]]

Close(t, h) ==
    /\ call[t].pc = "idle" /\ handle[h].alive /\ Quiet(h)
    /\ LET w == close(World(Idle), h)
       IN  /\ Commit(w)
           /\ call' = [call EXCEPT ![t] = Ran(t, "close", h, w)]

Size(t, h) ==
    /\ call[t].pc = "idle" /\ handle[h].alive
    /\ \E env \in LseekErrnos :
          LET r == size(World(Idle), h, env)
          IN  /\ Commit(r.w)
              /\ call' = [call EXCEPT ![t] = [Ran(t, "size", h, r.w) EXCEPT !.ret = r.ret]]

MoveConstruct(t, h, other) ==
    /\ call[t].pc = "idle" /\ Quiet(other)
    /\ ~handle[h].alive /\ handle[other].alive
    /\ \E left \in {NoPath, handle[other].path} :
          LET w == moveConstruct(World(Idle), h, other, left)
          IN  /\ Commit(w)
              /\ call' = [call EXCEPT ![t] =
                            [Ran(t, "moveConstruct", h, w) EXCEPT
                                !.other = other, !.preOther = handle[other]]]

\* The caller keeps to WCTInnerAssert(path == other.path).
MoveAssign(t, h, other) ==
    /\ call[t].pc = "idle" /\ Quiet(h) /\ Quiet(other)
    /\ handle[h].alive /\ handle[other].alive
    /\ handle[h].path = handle[other].path
    /\ LET w == moveAssign(World(Idle), h, other)
       IN  /\ Commit(w)
           /\ call' = [call EXCEPT ![t] =
                         [Ran(t, "moveAssign", h, w) EXCEPT
                             !.other = other, !.preOther = handle[other]]]

Destroy(t, h) ==
    /\ call[t].pc = "idle" /\ Quiet(h) /\ handle[h].alive
    /\ LET w == destroy(World(Idle), h)
       IN  /\ Commit(w)
           /\ call' = [call EXCEPT ![t] = Ran(t, "destroy", h, w)]

\* read(buffer, offset, size) is entered: WCTInnerAssert(m_fd != -1), prior = 0
ReadBegin(t, h, offset, size_) ==
    /\ call[t].pc = "idle" /\ handle[h].alive /\ isOpened(handle[h])
    /\ call' = [call EXCEPT ![t] =
                  [Idle EXCEPT !.pc = "read", !.op = "read", !.h = h, !.pre = handle[h],
                               !.buffer = Zeroed(size_), !.offset = offset, !.size = size_,
                               !.off0 = offset, !.size0 = size_]]
    /\ UNCHANGED <<files, fdtab, handle, threadedError>>

\* write(buffer, offset, size) is entered: WCTInnerAssert(m_fd != -1), prior = 0
WriteBegin(t, h, bytes, offset) ==
    /\ call[t].pc = "idle" /\ handle[h].alive /\ isOpened(handle[h])
    /\ call' = [call EXCEPT ![t] =
                  [Idle EXCEPT !.pc = "write", !.op = "write", !.h = h, !.pre = handle[h],
                               !.buffer = bytes, !.offset = offset, !.size = Len(bytes),
                               !.off0 = offset, !.size0 = Len(bytes)]]
    /\ UNCHANGED <<files, fdtab, handle, threadedError>>

\* The errors the world saw published and stored go into the call's record.
Kept(c, w) == [c EXCEPT !.pubs = w.pubs, !.stores = w.stores]

ReadAttempt(t) ==
    /\ call[t].pc = "read"
    /\ LET c == call[t]
           w == World(c)
       IN  \E out \in PreadOutcomes(w, handle[c.h].m_fd, c.size, c.offset) :
              LET r == readIteration(w, c, t, out)
              IN  /\ Commit(r.w)
                  /\ call' = [call EXCEPT ![t] = Kept(r.c, r.w)]

WriteAttempt(t) ==
    /\ call[t].pc = "write"
    /\ LET c == call[t]
           w == World(c)
       IN  \E out \in PwriteOutcomes(w, handle[c.h].m_fd, c.size, c.offset) :
              LET r == writeIteration(w, c, t, out)
              IN  /\ Commit(r.w)
                  /\ call' = [call EXCEPT ![t] = Kept(r.c, r.w)]

\* The caller takes the result; the thread is free for its next call.
Return(t) ==
    /\ call[t].pc = "done"
    /\ call' = [call EXCEPT ![t] = Idle]
    /\ UNCHANGED <<files, fdtab, handle, threadedError>>

\* What the owner of the handles does with them.
Lifecycle(t) ==
    \/ \E h \in Handles, p \in Paths : Construct(h, p)
    \/ \E h \in Handles, mode \in {"None", "ReadOnly", "OverWrite"} : Open(t, h, mode)
    \/ \E h \in Handles : Close(t, h)
    \/ \E h \in Handles : Size(t, h)
    \/ \E h \in Handles, other \in Handles : MoveConstruct(t, h, other)
    \/ \E h \in Handles, other \in Handles : MoveAssign(t, h, other)
    \/ \E h \in Handles : Destroy(t, h)
    \/ Return(t)

\* Positioned I/O by thread t.
PositionedIO(t) ==
    \/ \E h \in Handles, offset \in Offsets, size_ \in 0..MaxSize :
          ReadBegin(t, h, offset, size_)
    \/ \E h \in Handles, bytes \in WriteBuffers, offset \in Offsets :
          WriteBegin(t, h, bytes, offset)
    \/ ReadAttempt(t)
    \/ WriteAttempt(t)
    \/ Return(t)

\* Spec: one thread takes handles through their whole life, I/O included.
Next == Lifecycle(Owner) \/ PositionedIO(Owner)
Spec == Init /\ [][Next]_vars

\* SpecLife: construction, open, close, size, moves and destruction alone.
NextLife == Lifecycle(Owner)
SpecLife == Init /\ [][NextLife]_vars

\* SpecIO: two threads issue positioned reads and writes on one handle that
\* stays open: h1 after FileHandle h1("a"); h1.open(ReadOnly).
Opened ==
    LET w0 == [files |-> [p \in Paths |->
                            IF p = "a"
                            THEN [exists |-> TRUE, writable |-> FALSE, data |-> InitialData]
                            ELSE [exists |-> FALSE, writable |-> FALSE, data |-> <<>>]],
               fdtab |-> [n \in 1..MaxFd |-> NoFd],
               handle |-> [h \in Handles |-> IF h = "h1" THEN FileHandle("a")
                                             ELSE NoObject],
               err |-> [t \in Threads |-> NoError],
               fails |-> <<>>, pubs |-> <<>>, stores |-> 0, oscalls |-> <<>>,
               asserted |-> FALSE]
    IN  open(w0, Owner, "h1", "ReadOnly").w

InitIO ==
    /\ files = Opened.files
    /\ fdtab = Opened.fdtab
    /\ handle = Opened.handle
    /\ threadedError = [t \in Threads |-> NoError]
    /\ call = [t \in Threads |-> Idle]

NextIO == \E t \in Threads : PositionedIO(t)
SpecIO == InitIO /\ [][NextIO]_vars

\* A thread that is inside read() or write() keeps running.
FairSpecIO ==
    SpecIO /\ \A t \in Threads : WF_vars(ReadAttempt(t)) /\ WF_vars(WriteAttempt(t))

\* FairSpecCall: one thread issues reads and writes on h1 (open on "a", as in
\* SpecIO), and keeps running while it is inside one.
NextCall == PositionedIO(Owner)
FairSpecCall ==
    InitIO /\ [][NextCall]_vars
    /\ WF_vars(ReadAttempt(Owner)) /\ WF_vars(WriteAttempt(Owner))

\* SpecRead: one thread reads h1 (open on "a", as in SpecIO) at every offset
\* from the start of the file to one byte past its end.
NextRead ==
    \/ \E offset \in 0..(MaxSize + 1), size_ \in 0..MaxSize :
          ReadBegin(Owner, "h1", offset, size_)
    \/ ReadAttempt(Owner)
    \/ Return(Owner)
SpecRead == InitIO /\ [][NextRead]_vars

\* SpecRoundTrip: the end-to-end scenario on path "b".  h1 is the writer,
\* only ever opened with OverWrite; h2 is the reader, only ever opened with
\* ReadOnly.  Either may go out of scope (and be constructed again) at any
\* time, closed or not.
NextRoundTrip ==
    \/ Construct("h1", "b")
    \/ Open(Owner, "h1", "OverWrite")
    \/ \E bytes \in WriteBuffers : WriteBegin(Owner, "h1", bytes, 0)
    \/ WriteAttempt(Owner)
    \/ Close(Owner, "h1")
    \/ Construct("h2", "b")
    \/ Open(Owner, "h2", "ReadOnly")
    \/ \E size_ \in 0..MaxSize : ReadBegin(Owner, "h2", 0, size_)
    \/ ReadAttempt(Owner)
    \/ Size(Owner, "h2")
    \/ Close(Owner, "h2")
    \/ \E h \in Handles : Destroy(Owner, h)
    \/ Return(Owner)
SpecRoundTrip == Init /\ [][NextRoundTrip]_vars

\* ------------------------------------------------------------ properties
Range(seq) == {seq[i] : i \in 1..Len(seq)}
Done(t, op_) == call[t].pc = "done" /\ call[t].op = op_
OpenHandles == {h \in Handles : handle[h].alive /\ isOpened(handle[h])}

\* The flags the design prescribes for each mode: OverWrite is create +
\* write-only + truncate, ReadOnly is read-only (no flag set).
PrescribedFlags(mode) ==
    IF mode = "OverWrite" THEN {"O_CREAT", "O_WRONLY", "O_TRUNC"} ELSE {}

\* Failures the environment inflicts (as opposed to EBADF, which answers a
\* call the descriptor does not allow, and EINTR, which is retried).
EnvErrnos == {"EIO", "ENOSPC", "EOVERFLOW"}

\* C1: open(mode) with mode ReadOnly or OverWrite on a closed handle issues
\* exactly one ::open, with the flags of the mode; the descriptor stored and
\* the result of open() are those of that one call.
C1_OpenAcquiresOnce ==
    \A t \in Threads :
        LET c == call[t]
            acq == SelectSeq(c.oscalls, LAMBDA x : x.fn = "open")
        IN  (Done(t, "open") /\ c.mode \in {"ReadOnly", "OverWrite"} /\ ~isOpened(c.pre))
            => /\ Len(acq) = 1
               /\ acq[1].flags = PrescribedFlags(c.mode)
               /\ handle[c.h].m_fd = acq[1].ret
               /\ c.ok = (acq[1].ret # -1)

\* C2: the live descriptors are as many as the handles that are open: every
\* open handle accounts for one live descriptor, a closed handle for none.
C2_DescriptorsMatchOpenHandles ==
    Cardinality(LiveFds(fdtab)) = Cardinality(OpenHandles)

\* C3: round trip on path "b".  write(B, 0, N) on the writer opened with
\* OverWrite returns N and leaves B in the file; read(buf, 0, N) on the reader
\* opened with ReadOnly returns N with buf equal to the file's N bytes; size()
\* returns N; no error is captured, unless the environment fails an OS call.
C3_RoundTrip ==
    \A t \in Threads :
        LET c == call[t]
            data == files["b"].data
        IN  /\ (Done(t, "write") /\ c.h = "h1" /\ Range(c.fails) \cap EnvErrnos = {})
               => (c.ret = c.size0 /\ data = c.buffer /\ c.pubs = <<>>)
            /\ (Done(t, "read") /\ c.h = "h2" /\ c.size0 = Len(data)
                    /\ Range(c.fails) \cap EnvErrnos = {})
               => (c.ret = c.size0 /\ c.buffer = data /\ c.pubs = <<>>)
            /\ (Done(t, "size") /\ isOpened(c.pre) /\ Range(c.fails) \cap EnvErrnos = {})
               => c.ret = Len(data)

\* C4: after open(mode) with mode ReadOnly or OverWrite on a closed handle,
\* open returned success exactly when isOpened(); on success m_mode is the mode
\* asked for; on failure m_fd is -1, m_mode is None and the caller's error slot
\* holds an I/O error whose path is the handle's.
C4_OpenPostcondition ==
    \A t \in Threads :
        LET c == call[t]
            o == handle[c.h]
        IN  (Done(t, "open") /\ c.mode \in {"ReadOnly", "OverWrite"} /\ ~isOpened(c.pre))
            => /\ c.ok <=> isOpened(o)
               /\ c.ok => o.m_mode = c.mode
               /\ ~c.ok => /\ o.m_fd = -1
                           /\ o.m_mode = "None"
                           /\ threadedError[t].kind = "IOError"
                           /\ threadedError[t].path = o.path

\* C5: a stored descriptor other than -1 names a live descriptor, no two
\* handles store the same one, a handle that is gone stores none, and no OS
\* call is ever made on a descriptor that is not live (none is released twice
\* or used after its release).
C5_ExclusiveLiveDescriptor ==
    /\ \A h \in Handles :
          /\ isOpened(handle[h]) => handle[h].alive /\ handle[h].m_fd \in LiveFds(fdtab)
          /\ \A g \in Handles \ {h} :
                isOpened(handle[h]) => handle[g].m_fd # handle[h].m_fd
    /\ \A t \in Threads : \A x \in Range(call[t].oscalls) :
          (x.fn \in {"close", "lseek"} /\ x.fd # -1) => x.errno # "EBADF"

\* C5's case: close() released the descriptor of one handle while another
\* handle holds its own.
C5_Witness ==
    \E t \in Threads :
        /\ Done(t, "close") /\ isOpened(call[t].pre) /\ ~isOpened(handle[call[t].h])
        /\ \E x \in Range(call[t].oscalls) : x.fn = "close" /\ x.fd = call[t].pre.m_fd
        /\ \E g \in Handles \ {call[t].h} : isOpened(handle[g])

\* C6: a read() in which a pread failed (not by interruption) returns the
\* bytes transferred before the failing attempt, and captures one Error.
C6_ReadKeepsPartialCount ==
    \A t \in Threads :
        (Done(t, "read") /\ call[t].fails # <<>>)
        => (call[t].ret = call[t].xfer /\ Len(call[t].pubs) = 1)

\* C7: write() returns the number of bytes it wrote, also when a pwrite failed
\* (not by interruption), and then it captures one Error.
C7_WriteReturnsBytesWritten ==
    \A t \in Threads :
        Done(t, "write")
        => /\ call[t].ret = call[t].xfer
           /\ call[t].fails # <<>> => Len(call[t].pubs) = 1

\* C8: a call of open, read or write in which an OS call failed (not by
\* interruption) publishes exactly one Error (I/O error, the code of a failing
\* OS call, the handle's path) and stores it once in the caller's slot; a call
\* in which none failed publishes and stores nothing.
C8_ErrorReportedOnce ==
    \A t \in Threads :
        LET c == call[t]
        IN  (c.pc = "done" /\ c.op \in {"open", "read", "write"})
            => IF c.fails # <<>>
               THEN /\ Len(c.pubs) = 1 /\ c.stores = 1
                    /\ c.pubs[1].kind = "IOError"
                    /\ c.pubs[1].code \in Range(c.fails)
                    /\ c.pubs[1].path = c.pre.path
                    /\ threadedError[t] = c.pubs[1]
               ELSE c.pubs = <<>> /\ c.stores = 0

\* An attempt of thread t's call was interrupted in this step.
Interrupted(t) ==
    /\ call[t].pc \in {"read", "write"}
    /\ call'[t] # call[t]
    /\ call'[t].errno = "EINTR"

\* C9: an interrupted attempt of read() or write() changes nothing but errno
\* and the count of attempts: the call stays in its loop and re-issues the
\* attempt with the same offset, size and buffer position; the running total,
\* the buffer, the file and the errors published and stored are as before.
C9_InterruptionTransparent ==
    [][\A t \in Threads :
          Interrupted(t)
          => /\ call'[t].pc = call[t].pc /\ call'[t].got > 0
             /\ call'[t].offset = call[t].offset /\ call'[t].size = call[t].size
             /\ call'[t].prior = call[t].prior /\ call'[t].bpos = call[t].bpos
             /\ call'[t].buffer = call[t].buffer /\ call'[t].xfer = call[t].xfer
             /\ call'[t].fails = call[t].fails
             /\ call'[t].pubs = call[t].pubs /\ call'[t].stores = call[t].stores
             /\ files' = files /\ threadedError' = threadedError
             /\ handle' = handle /\ fdtab' = fdtab]_vars

\* C9's case: a read() of the whole file was short once and interrupted once,
\* and returned all the bytes, with no error.
C9_Witness ==
    \E t \in Threads :
        /\ Done(t, "read") /\ call[t].intr >= 1 /\ call[t].attempts >= 3
        /\ call[t].size0 = MaxSize /\ call[t].ret = MaxSize
        /\ call[t].buffer = InitialData
        /\ call[t].pubs = <<>> /\ threadedError[t] = NoError

\* C10 as stated: a read() or write() makes a bounded number of attempts and
\* then returns, whatever is interrupted.
C10_RetryBounded ==
    \A t \in Threads : (call[t].pc \in {"read", "write"}) ~> (call[t].pc = "done")

\* C10 as amended: only the attempts that are not interrupted are bounded,
\* by max(1, size): a call that is still in its loop has made fewer.
C10_UninterruptedAttemptsBounded ==
    \A t \in Threads :
        LET c == call[t]
            bound == Max({1, c.size0})
        IN  /\ c.op \in {"read", "write"} => c.attempts - c.intr <= bound
            /\ c.pc \in {"read", "write"} => c.attempts - c.intr < bound

\* C10's case: every attempt of a read() so far was interrupted, more often
\* than MaxIntr times, and the call is still in its loop.
C10_Witness ==
    \E t \in Threads :
        /\ call[t].pc = "read" /\ call[t].attempts = call[t].intr
        /\ call[t].intr = MaxIntr /\ call[t].more

\* The bytes the file of thread t's call holds.
FileOf(t) == files[call[t].pre.path].data

\* min(size, max(0, L - offset)): what a file of length L has for a read.
Available(L, offset, size_) == Min({size_, Max({0, L - offset})})

\* C11 as stated: a read() none of whose attempts failed returns
\* min(size, max(0, L - offset)) and these bytes of the file, publishes and
\* stores no Error, and whenever offset + size exceeds L the count is strictly
\* less than size.
C11_EndOfFileCount ==
    \A t \in Threads :
        LET c == call[t]
            L == Len(FileOf(t))
            n == Available(L, c.off0, c.size0)
        IN  (Done(t, "read") /\ c.fails = <<>>)
            => /\ c.ret = n
               /\ SubSeq(c.buffer, 1, n) = SubSeq(FileOf(t), c.off0 + 1, c.off0 + n)
               /\ c.pubs = <<>> /\ c.stores = 0
               /\ c.off0 + c.size0 > L => c.ret < c.size0

\* C11 as amended: the same, with the count strictly less than size when
\* offset + size exceeds L and size is not 0 (a read of 0 bytes returns 0,
\* which is its size, wherever it is issued).
C11_EndOfFileCountNonEmpty ==
    \A t \in Threads :
        LET c == call[t]
            L == Len(FileOf(t))
            n == Available(L, c.off0, c.size0)
        IN  (Done(t, "read") /\ c.fails = <<>>)
            => /\ c.ret = n
               /\ SubSeq(c.buffer, 1, n) = SubSeq(FileOf(t), c.off0 + 1, c.off0 + n)
               /\ c.pubs = <<>> /\ c.stores = 0
               /\ (c.off0 + c.size0 > L /\ c.size0 > 0) => c.ret < c.size0

\* C11's case: a read of MaxSize bytes one byte into the file ran into the
\* end of the file: a short pread, then a pread that transferred nothing.
C11_Witness ==
    \E t \in Threads :
        /\ Done(t, "read") /\ call[t].fails = <<>>
        /\ call[t].off0 = 1 /\ call[t].size0 = MaxSize
        /\ call[t].attempts - call[t].intr = 2
        /\ call[t].ret = MaxSize - 1 /\ call[t].pubs = <<>>

\* C12: close() on a handle that is already closed trips no assertion, makes
\* no OS call and leaves the handle closed; and no close() releases a
\* descriptor that is not live (none is released twice).
C12_IdempotentClose ==
    \A t \in Threads :
        LET c == call[t]
        IN  /\ (Done(t, "close") /\ ~isOpened(c.pre))
               => (~c.asserted /\ c.oscalls = <<>> /\ ~isOpened(handle[c.h]))
            /\ Done(t, "close")
               => \A x \in Range(c.oscalls) : x.fn = "close" => x.errno = "OK"

\* C13: after h is move-constructed from other, h holds the path, the
\* descriptor and the mode other had, and other is closed with mode None; the
\* descriptor h received is live.  Destroying a closed handle (a moved-from
\* one among them) makes no OS call and trips no assertion, and leaves the
\* descriptors of the open handles live.
C13_MoveConstruction ==
    \A t \in Threads :
        LET c == call[t]
        IN  /\ Done(t, "moveConstruct")
               => /\ handle[c.h].alive
                  /\ handle[c.h].path = c.preOther.path
                  /\ handle[c.h].m_fd = c.preOther.m_fd
                  /\ handle[c.h].m_mode = c.preOther.m_mode
                  /\ ~isOpened(handle[c.other]) /\ handle[c.other].m_mode = "None"
                  /\ isOpened(c.preOther) => handle[c.h].m_fd \in LiveFds(fdtab)
                  /\ c.oscalls = <<>> /\ ~c.asserted
            /\ (Done(t, "destroy") /\ ~isOpened(c.pre))
               => /\ c.oscalls = <<>> /\ ~c.asserted
                  /\ \A g \in OpenHandles : handle[g].m_fd \in LiveFds(fdtab)

\* C13's case: a moved-from handle (its path was moved out) was destroyed
\* while another handle holds a live descriptor.
C13_Witness ==
    \E t \in Threads :
        /\ Done(t, "destroy") /\ call[t].pre.alive /\ call[t].pre.path = NoPath
        /\ ~isOpened(call[t].pre)
        /\ \E g \in OpenHandles : handle[g].m_fd \in LiveFds(fdtab)

\* C14: after h = move(other), for two handles on the same path, h holds the
\* descriptor and the mode other had before, and other is left with the
\* descriptor -1 and the mode None.
C14_MoveAssignment ==
    \A t \in Threads :
        LET c == call[t]
        IN  (Done(t, "moveAssign") /\ c.h # c.other /\ c.pre.path = c.preOther.path)
            => /\ handle[c.h].m_fd = c.preOther.m_fd
               /\ handle[c.h].m_mode = c.preOther.m_mode
               /\ handle[c.other].m_fd = -1
               /\ handle[c.other].m_mode = "None"

\* C14's case: an open handle was move-assigned to another handle on the same
\* path, which now holds its descriptor.
C14_Witness ==
    \E t \in Threads :
        /\ Done(t, "moveAssign") /\ call[t].h # call[t].other
        /\ isOpened(call[t].preOther)
        /\ handle[call[t].h].m_fd = call[t].preOther.m_fd
        /\ handle[call[t].h].m_fd \in LiveFds(fdtab)

\* C15: when a handle that open(OverWrite) opened is destroyed while still
\* open, the destructor's check fires and its remedial close() releases the
\* descriptor.  (In SpecRoundTrip h1 is opened with OverWrite only, so h1 open
\* means: opened with OverWrite and not closed since.)
C15_DestructionCheck ==
    \A t \in Threads :
        LET c == call[t]
        IN  (Done(t, "destroy") /\ c.h = "h1" /\ isOpened(c.pre))
            => /\ c.asserted
               /\ \E x \in Range(c.oscalls) : x.fn = "close" /\ x.fd = c.pre.m_fd
               /\ c.pre.m_fd \notin LiveFds(fdtab)

\* C16: no step changes the cursor of a descriptor that stays open: size(),
\* like read() and write(), leaves the cursor where it was.
C16_CursorUntouched ==
    [][\A n \in 1..MaxFd :
          (fdtab[n] # NoFd /\ fdtab'[n] # NoFd) => fdtab'[n].cursor = fdtab[n].cursor]_vars

\* C17: size() on an open handle returns the length of the file; when its
\* OS call fails, one Error with the OS code and the handle's path is
\* published and stored in the caller's slot.
C17_SizeReportsFailure ==
    \A t \in Threads :
        LET c == call[t]
        IN  (Done(t, "size") /\ isOpened(c.pre))
            => IF c.fails = <<>>
               THEN c.ret = Len(FileOf(t)) /\ c.pubs = <<>>
               ELSE /\ Len(c.pubs) = 1 /\ c.stores = 1
                    /\ c.pubs[1].code \in Range(c.fails)
                    /\ c.pubs[1].path = c.pre.path
                    /\ threadedError[t] = c.pubs[1]

\* C18: in any interleaving of read() and write() calls of several threads on
\* one open handle, no step changes the handle (descriptor, mode); a step of
\* one thread's call leaves the other threads' calls (offset, remaining size,
\* running total) and error slots as they were; and a thread's error slot
\* changes only in the step in which an attempt of its own call failed, to
\* the Error of that failure.
C18_CallsIndependent ==
    [][\A t \in Threads :
          /\ handle' = handle
          /\ call'[t] # call[t]
             => \A u \in Threads \ {t} :
                   call'[u] = call[u] /\ threadedError'[u] = threadedError[u]
          /\ threadedError'[t] # threadedError[t]
             => /\ call[t].pc \in {"read", "write"} /\ call'[t].pc = "done"
                /\ Len(call'[t].fails) = Len(call[t].fails) + 1
                /\ call'[t].pubs # <<>>
                /\ threadedError'[t] = call'[t].pubs[Len(call'[t].pubs)]]_vars

\* C18's case: one thread's call failed and left its Error in that thread's
\* slot while another thread is in the middle of a read (one short transfer
\* done) and has an empty slot.
C18_Witness ==
    \E t \in Threads, u \in Threads :
        /\ t # u
        /\ call[t].pc = "done" /\ call[t].fails # <<>>
        /\ threadedError[t] # NoError /\ threadedError[t] = call[t].pubs[1]
        /\ call[u].pc = "read" /\ call[u].h = call[t].h /\ call[u].prior > 0
        /\ threadedError[u] = NoError

\* C19: whenever a read() or write() is about to make an attempt, with xfer
\* the bytes its earlier attempts transferred, the attempt is for offset
\* off0 + xfer, size0 - xfer bytes and buffer position xfer, and the running
\* total is xfer; a call that completed without error returns xfer.
C19_LoopAccounting ==
    \A t \in Threads :
        LET c == call[t]
        IN  /\ c.pc \in {"read", "write"}
               => /\ c.offset = c.off0 + c.xfer
                  /\ c.size = c.size0 - c.xfer
                  /\ c.bpos = c.xfer
                  /\ c.prior = c.xfer
            /\ (c.pc = "done" /\ c.op \in {"read", "write"} /\ c.fails = <<>>)
               => c.ret = c.xfer

\* C19's case: a read() is in its loop after a short transfer, about to ask
\* for the remaining bytes at the advanced offset.
C19_Witness ==
    \E t \in Threads :
        /\ call[t].pc = "read" /\ call[t].xfer > 0 /\ call[t].size > 0
        /\ call[t].offset = call[t].off0 + call[t].xfer
        /\ call[t].size = call[t].size0 - call[t].xfer

\* An attempt of thread t's call was made in this step and not interrupted.
Uninterrupted(t) ==
    /\ call[t].pc \in {"read", "write"}
    /\ call'[t] # call[t]
    /\ call'[t].errno # "EINTR"

\* C20: every attempt that is not interrupted ends the loop or strictly
\* decreases the remaining size; a call makes at most size + interruptions + 1
\* attempts; and a call of which only finitely many attempts are interrupted
\* returns.
C20_TerminatesUnlessInterrupted ==
    /\ [][\A t \in Threads :
            Uninterrupted(t) => (call'[t].pc = "done" \/ call'[t].size < call[t].size)]_vars
    /\ [](\A t \in Threads : call[t].attempts <= call[t].size0 + call[t].intr + 1)
    /\ \A t \in Threads :
          (<>[][~Interrupted(t)]_vars)
          => ((call[t].pc \in {"read", "write"}) ~> (call[t].pc = "done"))

\* C20's case: a read() returned after it was interrupted MaxIntr times and
\* more, and then transferred all its bytes in as many attempts as bytes.
C20_Witness ==
    \E t \in Threads :
        /\ Done(t, "read") /\ call[t].intr = MaxIntr /\ call[t].more
        /\ call[t].size0 = MaxSize
        /\ call[t].attempts = MaxSize + MaxIntr
        /\ call[t].ret = MaxSize

====
